---- MODULE Spec2Model ----
(***************************************************************************)
(* A model of roadcolor (src/src/roadcolor/color.py): the RGB / HSL value  *)
(* types, the string parser of Color, the Color manipulations and the      *)
(* Palette generators.                                                     *)
(*                                                                         *)
(* Floating point.  colorsys and the code compute in IEEE doubles and      *)
(* truncate with int().  Every quantity the code truncates is, in exact    *)
(* arithmetic, a rational num/den with a small denominator, so the double  *)
(* differs from it by a relative error of about 1e-16 and int() can differ *)
(* from the exact truncation only when num/den is itself an integer k: the *)
(* double may then lie just below k (or, for k < 0, just above it).        *)
(* IntOf gives both outcomes; every operator built on it returns the SET   *)
(* of results the code can produce, and the actions choose from it.        *)
(***************************************************************************)
EXTENDS Integers, Sequences, FiniteSets, TLC

VARIABLES
    vArgs,      \* SpecValue: the three integers handed to RGB(r, g, b)
    vRgb,       \* SpecValue: the RGB object built from vArgs (NoVal before)
    vHex,       \* SpecValue: the string RGB.to_hex() returned (NoVal before)
    vHsl,       \* SpecValue: the HSL RGB.to_hsl() returned (NoVal before)
    vBack,      \* SpecValue: the RGB HSL.to_rgb() returned for vHsl (NoVal before)
    pText,      \* SpecParse: the string handed to Color(...)
    pResult,    \* SpecParse: how Color(pText) ended (NoVal before the call)
    rgbs,       \* SpecHeap: the RGB objects; an object's identity is its index
    colors,     \* SpecHeap: the Color objects; colors[c] is the RGB object c.rgb refers to
    held,       \* SpecHeap: the RGB objects the caller built itself and still refers to
    writes,     \* SpecHeap: how many field assignments the caller has made
    call,       \* SpecHeap: the last call of a Color or Palette method and what it returned
    gStart,     \* SpecPalette: the RGB value of the base (or start) Color
    gEnd,       \* SpecPalette: the RGB value of the end Color of a gradient
    gResult     \* SpecPalette: how the palette call ended (NoVal before the call)

valueVars == <<vArgs, vRgb, vHex, vHsl, vBack>>
parseVars == <<pText, pResult>>
heapVars == <<rgbs, colors, held, writes, call>>
palVars == <<gStart, gEnd, gResult>>
vars == <<valueVars, parseVars, heapVars, palVars>>

\* An absent value (Python's unset variable) is the empty sequence; a present
\* value x is <<x>>.
NoVal == <<>>
Some(x) == <<x>>
The(v) == v[1]

(***************************************************************************)
(* Bounds of the model.                                                    *)
(***************************************************************************)
\* RGB arguments are drawn this far around both ends of the channel range.
MaxOver == 2

(***************************************************************************)
(* Arithmetic helpers.                                                     *)
(***************************************************************************)
Max2(a, b) == IF a >= b THEN a ELSE b
Min2(a, b) == IF a <= b THEN a ELSE b
Abs(x) == IF x < 0 THEN -x ELSE x

\* max(lo, min(hi, x)), the clamp of the __post_init__ methods.
Clamp(lo, hi, x) == Max2(lo, Min2(hi, x))

\* Truncation toward zero of num/den (den > 0): int() of the exact value.
Trunc(num, den) == IF num >= 0 THEN num \div den ELSE -((-num) \div den)

\* int(x) for a double x whose exact value is num/den (den > 0): the exact
\* truncation, and when num/den is an integer also the truncation of a double
\* that fell on the other side of it.
IntOf(num, den) ==
    IF num % den # 0 THEN {Trunc(num, den)}
    ELSE IF num > 0 THEN {num \div den - 1, num \div den}
    ELSE IF num < 0 THEN {Trunc(num, den), Trunc(num, den) + 1}
    ELSE {0}

(***************************************************************************)
(* RGB (color.py 15-50).                                                   *)
(***************************************************************************)
\* RGB.__post_init__ with clamping of each channel removed above 255.
MkRGBNoUpper(r, g, b) == [r |-> Max2(0, r), g |-> Max2(0, g), b |-> Max2(0, b)]

\* RGB(r, g, b): the dataclass constructor followed by __post_init__.
MkRGB(r, g, b) == [r |-> Clamp(0, 255, r), g |-> Clamp(0, 255, g), b |-> Clamp(0, 255, b)]

HexDigits == <<"0", "1", "2", "3", "4", "5", "6", "7", "8", "9",
               "a", "b", "c", "d", "e", "f">>

\* format(n, "x") for n >= 0: the lowercase hex digits of n, most significant first.
RECURSIVE HexOf(_)
HexOf(n) == IF n < 16 THEN <<HexDigits[n + 1]>>
            ELSE HexOf(n \div 16) \o <<HexDigits[(n % 16) + 1]>>

\* format(n, "02x"): sign, then the digits zero-padded to a total width of 2.
Hex02(n) ==
    IF n < 0 THEN <<"-">> \o HexOf(-n)
    ELSE IF n < 16 THEN <<"0">> \o HexOf(n)
    ELSE HexOf(n)

\* RGB.to_hex
ToHex(c) == <<"#">> \o Hex02(c.r) \o Hex02(c.g) \o Hex02(c.b)

\* HSL(h, s, l): the dataclass constructor followed by __post_init__.
MkHSL(h, s, l) == [h |-> h % 360, s |-> Clamp(0, 100, s), l |-> Clamp(0, 100, l)]

\* RGB.to_hsl: colorsys.rgb_to_hls on the channels over 255, then
\* HSL(int(h * 360), int(s * 100), int(l * 100)).  With maxc = Mx/255 and
\* minc = Mn/255: l = (Mx+Mn)/510; s = (Mx-Mn)/(Mx+Mn) when l <= 0.5 and
\* (Mx-Mn)/(510-Mx-Mn) otherwise; 6h = (G-B)/range, 2 + (B-R)/range or
\* 4 + (R-G)/range by the maximal channel, taken modulo 6.
RGBToHSL(c) ==
    LET mx == Max2(c.r, Max2(c.g, c.b))
        mn == Min2(c.r, Min2(c.g, c.b))
        sumc == mx + mn
        rangec == mx - mn
        ls == IntOf(100 * sumc, 510)
    IN  IF mn = mx THEN {MkHSL(0, 0, l) : l \in ls}
        ELSE
        LET ss == IF sumc <= 255 THEN IntOf(100 * rangec, sumc)
                  ELSE IntOf(100 * rangec, 510 - sumc)
            h6 == IF c.r = mx THEN c.g - c.b
                  ELSE IF c.g = mx THEN 2 * rangec + (c.b - c.r)
                  ELSE 4 * rangec + (c.r - c.g)
            hs == IntOf((60 * h6) % (360 * rangec), rangec)
        IN  {MkHSL(h, s, l) : h \in hs, s \in ss, l \in ls}

\* colorsys._v(m1, m2, hue), with m1 = M1/10000, m2 = M2/10000 and the hue in
\* degrees; the result is the returned value times 600000.
HlsV(M1, M2, deg) ==
    LET hue == deg % 360
    IN  IF hue < 60 THEN 60 * M1 + (M2 - M1) * hue
        ELSE IF hue < 180 THEN 60 * M2
        ELSE IF hue < 240 THEN 60 * M1 + (M2 - M1) * (240 - hue)
        ELSE 60 * M1

\* HSL.to_rgb with the blue channel computed at hue + 1/3 like the red one.
HSLToRGBSameThird(x) ==
    IF x.s = 0 THEN {MkRGB(v, v, v) : v \in IntOf(255 * x.l, 100)}
    ELSE
    LET M2 == IF x.l <= 50 THEN x.l * (100 + x.s)
              ELSE 100 * x.l + 100 * x.s - x.l * x.s
        M1 == 200 * x.l - M2
    IN  {MkRGB(r, g, b) :
            r \in IntOf(255 * HlsV(M1, M2, x.h + 120), 600000),
            g \in IntOf(255 * HlsV(M1, M2, x.h), 600000),
            b \in IntOf(255 * HlsV(M1, M2, x.h + 120), 600000)}

\* HSL.to_rgb: colorsys.hls_to_rgb(h/360, l/100, s/100), then
\* RGB(int(r * 255), int(g * 255), int(b * 255)).  x is the object's fields as
\* they stand, which a direct field assignment may have put out of range.
HSLToRGB(x) ==
    IF x.s = 0 THEN {MkRGB(v, v, v) : v \in IntOf(255 * x.l, 100)}
    ELSE
    LET M2 == IF x.l <= 50 THEN x.l * (100 + x.s)
              ELSE 100 * x.l + 100 * x.s - x.l * x.s
        M1 == 200 * x.l - M2
    IN  {MkRGB(r, g, b) :
            r \in IntOf(255 * HlsV(M1, M2, x.h + 120), 600000),
            g \in IntOf(255 * HlsV(M1, M2, x.h), 600000),
            b \in IntOf(255 * HlsV(M1, M2, x.h - 120), 600000)}

(***************************************************************************)
(* The arithmetic of the Color manipulations (color.py 156-192), on values. *)
(***************************************************************************)
\* int(rgb.luminance() * 255): the luminance is
\* 0.2126 * r/255 + 0.7152 * g/255 + 0.0722 * b/255.
GrayLevels(c) == IntOf(2126 * c.r + 7152 * c.g + 722 * c.b, 10000)

\* A ratio num/den (den > 0) whose double is exact: a multiple of 1/1024.  Its
\* products with channels and their sum are then exact as well.
ExactRatio(num, den) == (1024 * num) % den = 0

\* int(a * (1 - ratio) + b * ratio) for channels a and b and ratio = num/den.
BlendChannel(a, b, num, den) ==
    IF ExactRatio(num, den)
    THEN {Trunc(a * (den - num) + b * num, den)}
    ELSE IntOf(a * (den - num) + b * num, den)

\* The RGB that Color.blend builds from self.rgb = x and other.rgb = y.
BlendRGB(x, y, num, den) ==
    {MkRGB(r, g, b) : r \in BlendChannel(x.r, y.r, num, den),
                      g \in BlendChannel(x.g, y.g, num, den),
                      b \in BlendChannel(x.b, y.b, num, den)}

(***************************************************************************)
(* Strings are sequences of one-character strings.                         *)
(***************************************************************************)
UpperChars == <<"A", "B", "C", "D", "E", "F", "G", "H", "I", "J", "K", "L", "M",
                "N", "O", "P", "Q", "R", "S", "T", "U", "V", "W", "X", "Y", "Z">>
LowerChars == <<"a", "b", "c", "d", "e", "f", "g", "h", "i", "j", "k", "l", "m",
                "n", "o", "p", "q", "r", "s", "t", "u", "v", "w", "x", "y", "z">>
Whitespace == {" ", "\t", "\n", "\r", "\f"}
DecDigits == <<"0", "1", "2", "3", "4", "5", "6", "7", "8", "9">>
DecDigitSet == {DecDigits[i] : i \in 1..10}

\* The first index at or after i whose character is not in set (Len(s) + 1 if none).
RECURSIVE SkipWhile(_, _, _)
SkipWhile(s, i, set) ==
    IF i <= Len(s) /\ s[i] \in set THEN SkipWhile(s, i + 1, set) ELSE i

\* The last index at or before i whose character is not in set (0 if none).
RECURSIVE SkipBack(_, _, _)
SkipBack(s, i, set) ==
    IF i >= 1 /\ s[i] \in set THEN SkipBack(s, i - 1, set) ELSE i

\* str.strip()
Strip(s) == SubSeq(s, SkipWhile(s, 1, Whitespace), SkipBack(s, Len(s), Whitespace))

\* str.lstrip(chars)
LStrip(s, chars) == SubSeq(s, SkipWhile(s, 1, chars), Len(s))

\* str.lower()
LowerChar(ch) ==
    IF \E i \in 1..26 : UpperChars[i] = ch
    THEN LowerChars[CHOOSE i \in 1..26 : UpperChars[i] = ch]
    ELSE ch
Lower(s) == [i \in 1..Len(s) |-> LowerChar(s[i])]

\* str.startswith(prefix)
StartsWith(s, prefix) ==
    Len(s) >= Len(prefix) /\ SubSeq(s, 1, Len(prefix)) = prefix

\* The slice s[a:b] of Python, 0 <= a <= b: it stops at the end of s.
Slice(s, a, b) == SubSeq(s, a + 1, Min2(b, Len(s)))

\* The value of a hex digit character of either case, 16 for any other character.
HexValueOf(ch) ==
    LET c == LowerChar(ch)
    IN  IF \E i \in 1..16 : HexDigits[i] = c
        THEN (CHOOSE i \in 1..16 : HexDigits[i] = c) - 1
        ELSE 16

\* int(s, 16) on a string of hex digits and of characters int() rejects: the
\* value, or -1 where int() raises ValueError (the empty string, any character
\* that is no hex digit).  Signs, blanks, underscores and an 0x prefix, which
\* int() also reads, are not in the alphabet of the model's hex strings.
RECURSIVE Int16(_)
Int16(s) ==
    IF Len(s) = 0 THEN -1
    ELSE IF HexValueOf(s[Len(s)]) = 16 THEN -1
    ELSE IF Len(s) = 1 THEN HexValueOf(s[1])
    ELSE LET hi == Int16(SubSeq(s, 1, Len(s) - 1))
         IN  IF hi < 0 THEN -1 ELSE 16 * hi + HexValueOf(s[Len(s)])

\* int(s) on a string of decimal digits, as the captured groups are.
RECURSIVE Int10(_)
Int10(s) ==
    IF Len(s) = 0 THEN 0
    ELSE 10 * Int10(SubSeq(s, 1, Len(s) - 1))
         + ((CHOOSE i \in 1..10 : DecDigits[i] = s[Len(s)]) - 1)

(***************************************************************************)
(* Regular expressions.  A pattern is a sequence of items: a literal       *)
(* character, an optional character, a run of blanks of any length and a   *)
(* captured run of one or more digits.  ReMatch is re.match: anchored at   *)
(* the start, the rest of the string free.  The runs take all they can; in *)
(* the patterns of this program the item after a run never matches a blank *)
(* or a digit, so giving characters back could not turn a failure into a   *)
(* match.                                                                  *)
(***************************************************************************)
Lit(c) == [k |-> "lit", c |-> c]
Opt(c) == [k |-> "opt", c |-> c]
Blanks == [k |-> "ws", c |-> ""]
Number == [k |-> "num", c |-> ""]

NoMatch == [ok |-> FALSE, groups |-> <<>>]

RECURSIVE ReRun(_, _, _, _, _)
ReRun(pat, p, s, i, groups) ==
    IF p > Len(pat) THEN [ok |-> TRUE, groups |-> groups]
    ELSE IF pat[p].k = "lit" THEN
        IF i <= Len(s) /\ s[i] = pat[p].c
        THEN ReRun(pat, p + 1, s, i + 1, groups)
        ELSE NoMatch
    ELSE IF pat[p].k = "opt" THEN
        IF i <= Len(s) /\ s[i] = pat[p].c
        THEN LET taken == ReRun(pat, p + 1, s, i + 1, groups)
             IN  IF taken.ok THEN taken ELSE ReRun(pat, p + 1, s, i, groups)
        ELSE ReRun(pat, p + 1, s, i, groups)
    ELSE IF pat[p].k = "ws" THEN
        ReRun(pat, p + 1, s, SkipWhile(s, i, Whitespace), groups)
    ELSE
        LET j == SkipWhile(s, i, DecDigitSet)
        IN  IF j > i
            THEN ReRun(pat, p + 1, s, j, Append(groups, SubSeq(s, i, j - 1)))
            ELSE NoMatch

ReMatch(pat, s) == ReRun(pat, 1, s, 1, <<>>)

\* r"rgba?\((\d+),\s*(\d+),\s*(\d+)"
RgbPattern ==
    <<Lit("r"), Lit("g"), Lit("b"), Opt("a"), Lit("("),
      Number, Lit(","), Blanks, Number, Lit(","), Blanks, Number>>

\* r"hsla?\((\d+),\s*(\d+)%?,\s*(\d+)%?"
HslPattern ==
    <<Lit("h"), Lit("s"), Lit("l"), Opt("a"), Lit("("),
      Number, Lit(","), Blanks, Number, Opt("%"), Lit(","), Blanks, Number, Opt("%")>>

(***************************************************************************)
(* Color's string parser (color.py 111-145).  A call ends by returning an  *)
(* RGB or by raising ValueError.                                           *)
(***************************************************************************)
Returned(rgb) == [raised |-> "", value |-> Some(rgb)]
Raised(exc) == [raised |-> exc, value |-> NoVal]

\* NAMED_COLORS
NAMED_COLORS == {
    [name |-> <<"b", "l", "a", "c", "k">>,
     hex |-> <<"#", "0", "0", "0", "0", "0", "0">>],
    [name |-> <<"w", "h", "i", "t", "e">>,
     hex |-> <<"#", "f", "f", "f", "f", "f", "f">>],
    [name |-> <<"r", "e", "d">>,
     hex |-> <<"#", "f", "f", "0", "0", "0", "0">>],
    [name |-> <<"g", "r", "e", "e", "n">>,
     hex |-> <<"#", "0", "0", "f", "f", "0", "0">>],
    [name |-> <<"b", "l", "u", "e">>,
     hex |-> <<"#", "0", "0", "0", "0", "f", "f">>],
    [name |-> <<"y", "e", "l", "l", "o", "w">>,
     hex |-> <<"#", "f", "f", "f", "f", "0", "0">>],
    [name |-> <<"c", "y", "a", "n">>,
     hex |-> <<"#", "0", "0", "f", "f", "f", "f">>],
    [name |-> <<"m", "a", "g", "e", "n", "t", "a">>,
     hex |-> <<"#", "f", "f", "0", "0", "f", "f">>],
    [name |-> <<"o", "r", "a", "n", "g", "e">>,
     hex |-> <<"#", "f", "f", "a", "5", "0", "0">>],
    [name |-> <<"p", "u", "r", "p", "l", "e">>,
     hex |-> <<"#", "8", "0", "0", "0", "8", "0">>],
    [name |-> <<"p", "i", "n", "k">>,
     hex |-> <<"#", "f", "f", "c", "0", "c", "b">>],
    [name |-> <<"b", "r", "o", "w", "n">>,
     hex |-> <<"#", "a", "5", "2", "a", "2", "a">>],
    [name |-> <<"g", "r", "a", "y">>,
     hex |-> <<"#", "8", "0", "8", "0", "8", "0">>],
    [name |-> <<"g", "r", "e", "y">>,
     hex |-> <<"#", "8", "0", "8", "0", "8", "0">>],
    [name |-> <<"n", "a", "v", "y">>,
     hex |-> <<"#", "0", "0", "0", "0", "8", "0">>],
    [name |-> <<"t", "e", "a", "l">>,
     hex |-> <<"#", "0", "0", "8", "0", "8", "0">>],
    [name |-> <<"o", "l", "i", "v", "e">>,
     hex |-> <<"#", "8", "0", "8", "0", "0", "0">>],
    [name |-> <<"m", "a", "r", "o", "o", "n">>,
     hex |-> <<"#", "8", "0", "0", "0", "0", "0">>],
    [name |-> <<"a", "q", "u", "a">>,
     hex |-> <<"#", "0", "0", "f", "f", "f", "f">>],
    [name |-> <<"l", "i", "m", "e">>,
     hex |-> <<"#", "0", "0", "f", "f", "0", "0">>],
    [name |-> <<"s", "i", "l", "v", "e", "r">>,
     hex |-> <<"#", "c", "0", "c", "0", "c", "0">>]}

\* Color._parse_hex; the set of its outcomes (one).
ParseHex(hexStr) ==
    LET stripped == LStrip(hexStr, {"#"})
        h == IF Len(stripped) = 3
             THEN <<stripped[1], stripped[1], stripped[2], stripped[2],
                    stripped[3], stripped[3]>>
             ELSE stripped
        r == Int16(Slice(h, 0, 2))
        g == Int16(Slice(h, 2, 4))
        b == Int16(Slice(h, 4, 6))
    IN  IF r < 0 \/ g < 0 \/ b < 0
        THEN {Raised("ValueError")}
        ELSE {Returned(MkRGB(r, g, b))}

\* Color._parse_rgb_string; the set of its outcomes (one).
ParseRgbString(rgbStr) ==
    LET m == ReMatch(RgbPattern, rgbStr)
    IN  IF m.ok
        THEN {Returned(MkRGB(Int10(m.groups[1]), Int10(m.groups[2]), Int10(m.groups[3])))}
        ELSE {Raised("ValueError")}

\* Color._parse_hsl_string; the set of its outcomes.
ParseHslString(hslStr) ==
    LET m == ReMatch(HslPattern, hslStr)
    IN  IF m.ok
        THEN {Returned(c) :
                c \in HSLToRGB(MkHSL(Int10(m.groups[1]), Int10(m.groups[2]),
                                     Int10(m.groups[3])))}
        ELSE {Raised("ValueError")}

\* Color._parse_string; the set of its outcomes.
ParseString(str) ==
    LET color == Lower(Strip(str))
    IN  IF StartsWith(color, <<"#">>) THEN ParseHex(color)
        ELSE IF StartsWith(color, <<"r", "g", "b">>) THEN ParseRgbString(color)
        ELSE IF StartsWith(color, <<"h", "s", "l">>) THEN ParseHslString(color)
        ELSE IF \E e \in NAMED_COLORS : e.name = color
        THEN ParseHex((CHOOSE e \in NAMED_COLORS : e.name = color).hex)
        ELSE {Raised("ValueError")}

(***************************************************************************)
(* SpecValue: RGB construction, to_hex, and the RGB -> HSL -> RGB round    *)
(* trip, on arguments of any range.                                        *)
(***************************************************************************)
\* Arguments around both ends of the channel range and sample values inside.
ArgVals == ((-MaxOver) .. MaxOver) \cup ((255 - MaxOver) .. (255 + MaxOver))
           \cup {5, 10, 20, 30, 128, 240, 244}

\* The variables of the other specifications, at rest.
ParseIdle == pText = <<>> /\ pResult = NoVal
NoCall == [op |-> "", self |-> 0, other |-> 0, arg |-> <<>>, view |-> NoVal,
           hsls |-> <<>>, result |-> <<>>, before |-> <<>>]
PalIdle ==
    /\ gStart = [r |-> 0, g |-> 0, b |-> 0]
    /\ gEnd = [r |-> 0, g |-> 0, b |-> 0]
    /\ gResult = NoVal
HeapIdle == rgbs = <<>> /\ colors = <<>> /\ held = {} /\ writes = 0 /\ call = NoCall

ValueInit ==
    /\ vArgs \in [r : ArgVals, g : ArgVals, b : ArgVals]
    /\ vRgb = NoVal
    /\ vHex = NoVal
    /\ vHsl = NoVal
    /\ vBack = NoVal
    /\ ParseIdle
    /\ HeapIdle
    /\ PalIdle

\* rgb = RGB(r, g, b)
NewRGB ==
    /\ vRgb = NoVal
    /\ vRgb' = Some(MkRGB(vArgs.r, vArgs.g, vArgs.b))
    /\ UNCHANGED <<vArgs, vHex, vHsl, vBack>>
    /\ UNCHANGED <<parseVars, heapVars, palVars>>

\* rgb.to_hex()
CallToHex ==
    /\ vRgb # NoVal
    /\ vHex = NoVal
    /\ vHex' = Some(ToHex(The(vRgb)))
    /\ UNCHANGED <<vArgs, vRgb, vHsl, vBack>>
    /\ UNCHANGED <<parseVars, heapVars, palVars>>

\* hsl = rgb.to_hsl()
CallToHsl ==
    /\ vRgb # NoVal
    /\ vHsl = NoVal
    /\ \E x \in RGBToHSL(The(vRgb)) : vHsl' = Some(x)
    /\ UNCHANGED <<vArgs, vRgb, vHex, vBack>>
    /\ UNCHANGED <<parseVars, heapVars, palVars>>

\* hsl.to_rgb()
CallToRgb ==
    /\ vHsl # NoVal
    /\ vBack = NoVal
    /\ \E x \in HSLToRGB(The(vHsl)) : vBack' = Some(x)
    /\ UNCHANGED <<vArgs, vRgb, vHex, vHsl>>
    /\ UNCHANGED <<parseVars, heapVars, palVars>>

ValueNext == NewRGB \/ CallToHex \/ CallToHsl \/ CallToRgb

SpecValue == ValueInit /\ [][ValueNext]_vars

(***************************************************************************)
(* Claims on SpecValue.                                                    *)
(***************************************************************************)
\* The value of a lowercase hex digit character (16 for any other character).
HexDigitValue(ch) ==
    IF \E i \in 1..16 : HexDigits[i] = ch
    THEN (CHOOSE i \in 1..16 : HexDigits[i] = ch) - 1
    ELSE 16

\* s[i], s[i+1] read as a two-digit lowercase hex number (-1 if they are not).
HexPair(s, i) ==
    IF HexDigitValue(s[i]) < 16 /\ HexDigitValue(s[i + 1]) < 16
    THEN 16 * HexDigitValue(s[i]) + HexDigitValue(s[i + 1])
    ELSE -1

\* What the claim says a channel is for an argument a.
Clamped(a) == IF a < 0 THEN 0 ELSE IF a > 255 THEN 255 ELSE a

\* C5: for all integers r, g, b, RGB(r, g, b) holds each argument clamped into
\* [0,255] (below 0 gives 0, above 255 gives 255, others unchanged), and
\* to_hex() of it is '#' followed by exactly 6 lowercase hex digits, two
\* zero-padded digits per channel in the order r, g, b.
C5_ClampAndHex ==
    /\ vRgb # NoVal =>
          /\ The(vRgb).r = Clamped(vArgs.r)
          /\ The(vRgb).g = Clamped(vArgs.g)
          /\ The(vRgb).b = Clamped(vArgs.b)
          /\ \A f \in {The(vRgb).r, The(vRgb).g, The(vRgb).b} : f \in 0..255
    /\ vHex # NoVal =>
          /\ Len(The(vHex)) = 7
          /\ The(vHex)[1] = "#"
          /\ HexPair(The(vHex), 2) = Clamped(vArgs.r)
          /\ HexPair(The(vHex), 4) = Clamped(vArgs.g)
          /\ HexPair(The(vHex), 6) = Clamped(vArgs.b)

\* C5's case: an argument below the range, one above it and one inside it
\* needing a leading zero, constructed and rendered.
C5_Witness ==
    /\ vArgs.r < 0 /\ vArgs.g > 255 /\ vArgs.b \in 1..15
    /\ vRgb # NoVal
    /\ vHex # NoVal

\* The largest difference between a channel of the original and of the RGB that
\* came back from the round trip.
RoundTripDeviation ==
    Max2(Abs(The(vBack).r - The(vRgb).r),
         Max2(Abs(The(vBack).g - The(vRgb).g), Abs(The(vBack).b - The(vRgb).b)))

\* The round trip in the state went through no int() of an exact integer: both
\* conversions had a single possible result, which is then the code's result
\* whatever the rounding of the doubles.
RoundTripCertain ==
    /\ Cardinality(RGBToHSL(The(vRgb))) = 1
    /\ Cardinality(HSLToRGB(The(vHsl))) = 1

\* C2 as stated: for every RGB value, RGB.to_hsl().to_rgb() returns an RGB whose
\* r, g and b each differ from the original channel by at most 1.  It is stated
\* of the round trips whose result does not depend on the rounding of a double,
\* so that a violation is one the code exhibits.
C2_RoundTripWithin1 ==
    (vBack # NoVal /\ RoundTripCertain) => RoundTripDeviation <= 1

\* C2 as amended: for every RGB value, RGB.to_hsl().to_rgb() returns an RGB
\* whose r, g and b each differ from the original channel by at most 11.
C2_RoundTripWithin11 == vBack # NoVal => RoundTripDeviation <= 11

\* C2's case: RGB(244, 240, 5) goes to HSL(58, 95, 48) and comes back as
\* RGB(238, 230, 6), ten units off in the green channel.
C2_Witness ==
    /\ vBack # NoVal
    /\ The(vRgb) = [r |-> 244, g |-> 240, b |-> 5]
    /\ The(vHsl) = [h |-> 58, s |-> 95, l |-> 48]
    /\ The(vBack) = [r |-> 238, g |-> 230, b |-> 6]
    /\ RoundTripDeviation = 10

(***************************************************************************)
(* SpecParse: Color(text) on hex strings, functional notations and names.  *)
(***************************************************************************)
\* The longest run of characters after the leading '#' of a hex string.
MaxHexLen == 7
\* The longest run of blanks at each place of a functional notation.
MaxWs == 1

SeqsUpTo(S, n) == UNION {[1..k -> S] : k \in 0..n}
Spaces(n) == [i \in 1..n |-> " "]

\* A hex digit, an upper-case hex digit, a letter that is no hex digit, and '#'.
HexAlphabet == {"1", "C", "g", "#"}
Pads == {<<>>, <<" ">>}
HexTexts ==
    {pad \o <<"#">> \o body \o pad :
        pad \in Pads, body \in SeqsUpTo(HexAlphabet, MaxHexLen)}

FuncNames == {<<"r", "g", "b">>, <<"r", "g", "b", "a">>,
              <<"h", "s", "l">>, <<"H", "S", "L", "a">>}
Opens == {<<"(">>, <<>>}
NumTokens == {<<"0">>, <<"1", "2", "8">>, <<"3", "0", "0">>}
Percents == {<<>>, <<"%">>}
Tails == {<<>>, <<")">>, <<",", " ", "0", ".", "5", ")">>}
FuncTexts ==
    {fn \o open \o Spaces(w[1]) \o n[1] \o Spaces(w[2]) \o <<",">>
        \o Spaces(w[3]) \o n[2] \o pct \o Spaces(w[4]) \o <<",">>
        \o Spaces(w[5]) \o n[3] \o pct \o tail :
        fn \in FuncNames, open \in Opens, w \in [1..5 -> 0..MaxWs],
        n \in [1..3 -> NumTokens], pct \in Percents, tail \in Tails}

NameTexts == {e.name : e \in NAMED_COLORS}
             \cup {<<" ", "R", "e", "d">>, <<"n", "o", "p", "e">>, <<>>}

ValueIdle ==
    /\ vArgs = [r |-> 0, g |-> 0, b |-> 0]
    /\ vRgb = NoVal /\ vHex = NoVal /\ vHsl = NoVal /\ vBack = NoVal

ParseInit ==
    /\ pText \in HexTexts \cup FuncTexts \cup NameTexts
    /\ pResult = NoVal
    /\ ValueIdle
    /\ HeapIdle
    /\ PalIdle

\* Color(text) for a str: self.rgb = self._parse_string(text), or the ValueError
\* it raises.
ColorFromString ==
    /\ pResult = NoVal
    /\ \E res \in ParseString(pText) : pResult' = Some(res)
    /\ UNCHANGED pText
    /\ UNCHANGED <<valueVars, heapVars, palVars>>

ParseNext == ColorFromString

SpecParse == ParseInit /\ [][ParseNext]_vars

(***************************************************************************)
(* Claims on SpecParse.                                                    *)
(***************************************************************************)
\* The text as the parser dispatches on it.
Normalized == Lower(Strip(pText))

AllHex(s) == \A i \in 1..Len(s) : HexDigitValue(s[i]) < 16

\* C1: for a string that starts with '#' after trimming and lower-casing,
\* construction succeeds only when the part after '#' is exactly 3 or exactly 6
\* hex digits; with any other length it fails with ValueError and produces no
\* Color; and '#abc' yields the color of '#aabbcc'.
C1_HexLength ==
    (pResult # NoVal /\ StartsWith(Normalized, <<"#">>)) =>
        LET body == SubSeq(Normalized, 2, Len(Normalized))
            res == The(pResult)
        IN  /\ res.raised = "" => (Len(body) \in {3, 6} /\ AllHex(body))
            /\ Len(body) \notin {3, 6} =>
                  (res.raised = "ValueError" /\ res.value = NoVal)
            /\ (Len(body) = 3 /\ AllHex(body)) =>
                  res = Returned([r |-> 17 * HexDigitValue(body[1]),
                                  g |-> 17 * HexDigitValue(body[2]),
                                  b |-> 17 * HexDigitValue(body[3])])

\* The patterns the specification gives for the two functional notations:
\* blanks are allowed before and after each component.
ClaimedRgbPattern ==
    <<Lit("r"), Lit("g"), Lit("b"), Opt("a"), Lit("("),
      Blanks, Number, Blanks, Lit(","), Blanks, Number, Blanks, Lit(","),
      Blanks, Number>>
ClaimedHslPattern ==
    <<Lit("h"), Lit("s"), Lit("l"), Opt("a"), Lit("("),
      Blanks, Number, Blanks, Lit(","), Blanks, Number, Opt("%"), Blanks, Lit(","),
      Blanks, Number, Opt("%")>>

\* C9: every string that starts with 'rgb' and matches the claimed rgb pattern
\* parses to RGB(R, G, B), every string that starts with 'hsl' and matches the
\* claimed hsl pattern parses to HSL(H, S, L).to_rgb(), and only the strings
\* that do not match fail with ValueError.
C9_FunctionalNotation ==
    pResult # NoVal =>
        LET res == The(pResult)
            mr == ReMatch(ClaimedRgbPattern, Normalized)
            mh == ReMatch(ClaimedHslPattern, Normalized)
        IN  /\ StartsWith(Normalized, <<"r", "g", "b">>) =>
                IF mr.ok
                THEN res = Returned(MkRGB(Int10(mr.groups[1]), Int10(mr.groups[2]),
                                          Int10(mr.groups[3])))
                ELSE res = Raised("ValueError")
            /\ StartsWith(Normalized, <<"h", "s", "l">>) =>
                IF mh.ok
                THEN /\ res.raised = ""
                     /\ The(res.value) \in
                           HSLToRGB(MkHSL(Int10(mh.groups[1]), Int10(mh.groups[2]),
                                          Int10(mh.groups[3])))
                ELSE res = Raised("ValueError")

(***************************************************************************)
(* SpecHeap: Color and RGB objects with identity.  The caller builds RGB   *)
(* objects and Colors, assigns to the fields of the RGB objects it holds,  *)
(* and calls the manipulations and the palettes of fixed length.           *)
(* Color(HSV) and Color(str) build a fresh RGB as Color(HSL) does; the     *)
(* string parser is the subject of SpecParse.                              *)
(***************************************************************************)
\* The most RGB objects and the most Color objects of a run.
MaxRgbs == 3
MaxColors == 3
\* The amounts of lighten, darken, saturate and desaturate go this far on both
\* sides of zero.
MaxAmount == 10
\* The most field assignments the caller makes in a run.
MaxWrites == 1

BaseRGBs == {[r |-> 0, g |-> 0, b |-> 0], [r |-> 128, g |-> 128, b |-> 128],
             [r |-> 255, g |-> 255, b |-> 255], [r |-> 255, g |-> 0, b |-> 0],
             [r |-> 10, g |-> 20, b |-> 30]}
BaseHSLs == {[h |-> 370, s |-> 50, l |-> 50], [h |-> 200, s |-> 0, l |-> 120]}
Amounts == {-MaxAmount, 0, MaxAmount}
Ratios == {[num |-> 0, den |-> 1], [num |-> 1, den |-> 2], [num |-> 1, den |-> 3],
           [num |-> 1, den |-> 1], [num |-> 3, den |-> 2]}
Spreads == {30, 45}
FieldValues == {0, 255}

ColorIds == 1..Len(colors)
\* The value of the RGB object Color c refers to.
RgbOf(c) == rgbs[colors[c]]
Room(n) == Len(rgbs) + n <= MaxRgbs /\ Len(colors) + n <= MaxColors

HeapInit ==
    /\ HeapIdle
    /\ ValueIdle
    /\ ParseIdle
    /\ PalIdle

\* rgb = RGB(r, g, b) in the caller.
CallerNewRGB ==
    /\ Len(rgbs) < MaxRgbs
    /\ \E x \in BaseRGBs :
          /\ rgbs' = Append(rgbs, MkRGB(x.r, x.g, x.b))
          /\ held' = held \cup {Len(rgbs) + 1}
    /\ call' = NoCall
    /\ UNCHANGED <<colors, writes>>
    /\ UNCHANGED <<valueVars, parseVars, palVars>>

\* rgb.r = v (or g, b) in the caller: a dataclass field assignment, which does
\* not run __post_init__.
CallerSetField ==
    /\ writes < MaxWrites
    /\ writes' = writes + 1
    /\ \E o \in held, f \in {"r", "g", "b"}, v \in FieldValues :
          /\ rgbs[o][f] # v
          /\ rgbs' = [rgbs EXCEPT ![o][f] = v]
    /\ call' = NoCall
    /\ UNCHANGED <<colors, held>>
    /\ UNCHANGED <<valueVars, parseVars, palVars>>

\* Color(rgb) for an RGB the caller holds: self.rgb = color.
ColorFromRGB ==
    /\ Len(colors) < MaxColors
    /\ \E o \in held :
          /\ colors' = Append(colors, o)
          /\ call' = [NoCall EXCEPT !.op = "Color(RGB)",
                                    !.result = <<Len(colors) + 1>>, !.before = rgbs]
    /\ UNCHANGED <<rgbs, held, writes>>
    /\ UNCHANGED <<valueVars, parseVars, palVars>>

\* What a method does when it ends by building Colors from the fresh values
\* vals (Color(hsl) with hsl.to_rgb(), or Color(RGB(...))): each value becomes a
\* new RGB object held by a new Color.  result lists the Colors returned.
Finish(op, self, other, arg, view, hsls, vals, result) ==
    /\ rgbs' = rgbs \o vals
    /\ colors' = colors \o [i \in 1..Len(vals) |-> Len(rgbs) + i]
    /\ call' = [op |-> op, self |-> self, other |-> other, arg |-> arg,
                view |-> view, hsls |-> hsls, result |-> result, before |-> rgbs]
    /\ UNCHANGED <<held, writes>>
    /\ UNCHANGED <<valueVars, parseVars, palVars>>

\* The identities of the n Colors a call creates.
Fresh(n) == [i \in 1..n |-> Len(colors) + i]

\* Color((r, g, b)): self.rgb = RGB(*color).
ColorFromTuple ==
    /\ Room(1)
    /\ \E x \in BaseRGBs :
          Finish("Color(tuple)", 0, 0, <<>>, NoVal, <<>>, <<MkRGB(x.r, x.g, x.b)>>, Fresh(1))

\* Color(HSL(h, s, l)): self.rgb = color.to_rgb().
ColorFromHSL ==
    /\ Room(1)
    /\ \E x \in BaseHSLs :
          LET hsl == MkHSL(x.h, x.s, x.l)
          IN  \E v \in HSLToRGB(hsl) :
                 Finish("Color(HSL)", 0, 0, <<>>, NoVal, <<hsl>>, <<v>>, Fresh(1))

\* Color.lighten
Lighten(c, amount) ==
    /\ Room(1)
    /\ \E view \in RGBToHSL(RgbOf(c)) :
          LET hsl == [view EXCEPT !.l = Min2(100, view.l + amount)]
          IN  \E v \in HSLToRGB(hsl) :
                 Finish("lighten", c, 0, <<amount>>, Some(view), <<hsl>>, <<v>>, Fresh(1))

\* Color.darken
Darken(c, amount) ==
    /\ Room(1)
    /\ \E view \in RGBToHSL(RgbOf(c)) :
          LET hsl == [view EXCEPT !.l = Max2(0, view.l - amount)]
          IN  \E v \in HSLToRGB(hsl) :
                 Finish("darken", c, 0, <<amount>>, Some(view), <<hsl>>, <<v>>, Fresh(1))

\* Color.saturate
Saturate(c, amount) ==
    /\ Room(1)
    /\ \E view \in RGBToHSL(RgbOf(c)) :
          LET hsl == [view EXCEPT !.s = Min2(100, view.s + amount)]
          IN  \E v \in HSLToRGB(hsl) :
                 Finish("saturate", c, 0, <<amount>>, Some(view), <<hsl>>, <<v>>, Fresh(1))

\* Color.desaturate
Desaturate(c, amount) ==
    /\ Room(1)
    /\ \E view \in RGBToHSL(RgbOf(c)) :
          LET hsl == [view EXCEPT !.s = Max2(0, view.s - amount)]
          IN  \E v \in HSLToRGB(hsl) :
                 Finish("desaturate", c, 0, <<amount>>, Some(view), <<hsl>>, <<v>>, Fresh(1))

\* Color.invert written to change self.rgb in place and return self.
InvertInPlace(c) ==
    /\ rgbs' = [rgbs EXCEPT ![colors[c]] =
                   MkRGB(255 - RgbOf(c).r, 255 - RgbOf(c).g, 255 - RgbOf(c).b)]
    /\ call' = [op |-> "invert", self |-> c, other |-> 0, arg |-> <<>>,
                view |-> NoVal, hsls |-> <<>>, result |-> <<c>>, before |-> rgbs]
    /\ UNCHANGED <<colors, held, writes>>
    /\ UNCHANGED <<valueVars, parseVars, palVars>>

\* Color.invert
Invert(c) ==
    /\ Room(1)
    /\ Finish("invert", c, 0, <<>>, NoVal, <<>>,
              <<MkRGB(255 - RgbOf(c).r, 255 - RgbOf(c).g, 255 - RgbOf(c).b)>>, Fresh(1))

\* Color.grayscale
Grayscale(c) ==
    /\ Room(1)
    /\ \E gray \in GrayLevels(RgbOf(c)) :
          Finish("grayscale", c, 0, <<>>, NoVal, <<>>, <<MkRGB(gray, gray, gray)>>, Fresh(1))

\* Color.complement
Complement(c) ==
    /\ Room(1)
    /\ \E view \in RGBToHSL(RgbOf(c)) :
          LET hsl == [view EXCEPT !.h = (view.h + 180) % 360]
          IN  \E v \in HSLToRGB(hsl) :
                 Finish("complement", c, 0, <<>>, Some(view), <<hsl>>, <<v>>, Fresh(1))

\* Color.blend
Blend(c, other, ratio) ==
    /\ Room(1)
    /\ \E v \in BlendRGB(RgbOf(c), RgbOf(other), ratio.num, ratio.den) :
          Finish("blend", c, other, <<ratio.num, ratio.den>>, NoVal, <<>>, <<v>>, Fresh(1))

\* Palette.complementary: [base, base.complement()]
Complementary(base) ==
    /\ Room(1)
    /\ \E view \in RGBToHSL(RgbOf(base)) :
          LET hsl == [view EXCEPT !.h = (view.h + 180) % 360]
          IN  \E v \in HSLToRGB(hsl) :
                 Finish("complementary", base, 0, <<>>, Some(view), <<hsl>>, <<v>>,
                        <<base>> \o Fresh(1))

\* Palette.triadic with the third hue a second copy of hue + 120.
TriadicSameHue(base) ==
    /\ Room(2)
    /\ \E view \in RGBToHSL(RgbOf(base)) :
          LET h1 == MkHSL((view.h + 120) % 360, view.s, view.l)
              h2 == MkHSL((view.h + 120) % 360, view.s, view.l)
          IN  \E v1 \in HSLToRGB(h1), v2 \in HSLToRGB(h2) :
                 Finish("triadic", base, 0, <<>>, Some(view), <<h1, h2>>, <<v1, v2>>,
                        <<base>> \o Fresh(2))

\* Palette.triadic
Triadic(base) ==
    /\ Room(2)
    /\ \E view \in RGBToHSL(RgbOf(base)) :
          LET h1 == MkHSL((view.h + 120) % 360, view.s, view.l)
              h2 == MkHSL((view.h + 240) % 360, view.s, view.l)
          IN  \E v1 \in HSLToRGB(h1), v2 \in HSLToRGB(h2) :
                 Finish("triadic", base, 0, <<>>, Some(view), <<h1, h2>>, <<v1, v2>>,
                        <<base>> \o Fresh(2))

\* Palette.split_complementary
SplitComplementary(base, spread) ==
    /\ Room(2)
    /\ \E view \in RGBToHSL(RgbOf(base)) :
          LET h1 == MkHSL((view.h + 180 - spread) % 360, view.s, view.l)
              h2 == MkHSL((view.h + 180 + spread) % 360, view.s, view.l)
          IN  \E v1 \in HSLToRGB(h1), v2 \in HSLToRGB(h2) :
                 Finish("split_complementary", base, 0, <<spread>>, Some(view),
                        <<h1, h2>>, <<v1, v2>>, <<base>> \o Fresh(2))

HeapNext ==
    \/ CallerNewRGB
    \/ CallerSetField
    \/ ColorFromRGB
    \/ ColorFromTuple
    \/ ColorFromHSL
    \/ \E c \in ColorIds, amount \in Amounts : Lighten(c, amount)
    \/ \E c \in ColorIds, amount \in Amounts : Darken(c, amount)
    \/ \E c \in ColorIds, amount \in Amounts : Saturate(c, amount)
    \/ \E c \in ColorIds, amount \in Amounts : Desaturate(c, amount)
    \/ \E c \in ColorIds : Invert(c)
    \/ \E c \in ColorIds : Grayscale(c)
    \/ \E c \in ColorIds : Complement(c)
    \/ \E c \in ColorIds, other \in ColorIds, ratio \in Ratios : Blend(c, other, ratio)
    \/ \E base \in ColorIds : Complementary(base)
    \/ \E base \in ColorIds : Triadic(base)
    \/ \E base \in ColorIds, spread \in Spreads : SplitComplementary(base, spread)

SpecHeap == HeapInit /\ [][HeapNext]_vars

(***************************************************************************)
(* Claims on SpecHeap.                                                     *)
(***************************************************************************)
Manipulations == {"lighten", "darken", "saturate", "desaturate", "invert",
                  "grayscale", "complement", "blend"}
FixedPalettes == {"complementary", "triadic", "split_complementary"}

\* C3: every Color holds an RGB object that nothing else refers to: not the
\* caller that passed it to Color(rgb) (so that a later assignment to the
\* caller's RGB fields cannot change the Color), not another Color; and no
\* Color in the list a palette returns is the base Color instance passed in.
C3_ExclusiveRGB ==
    /\ \A c \in ColorIds : colors[c] \notin held
    /\ \A c, d \in ColorIds : c # d => colors[c] # colors[d]
    /\ call.op \in FixedPalettes =>
          \A i \in 1..Len(call.result) : call.result[i] # call.self

\* C4: for every integer amount, the HSL value that lighten, darken, saturate
\* and desaturate hand to Color() has saturation and lightness in [0,100]:
\* lighten and saturate add the amount, darken and desaturate subtract it, and
\* the result is clamped into the range on both sides.
C4_HslClampedBothSides ==
    call.op \in {"lighten", "darken", "saturate", "desaturate"} =>
        LET hsl == call.hsls[1]
            view == The(call.view)
            amount == call.arg[1]
        IN  /\ hsl.s \in 0..100
            /\ hsl.l \in 0..100
            /\ call.op = "lighten" => hsl.l = Clamp(0, 100, view.l + amount)
            /\ call.op = "darken" => hsl.l = Clamp(0, 100, view.l - amount)
            /\ call.op = "saturate" => hsl.s = Clamp(0, 100, view.s + amount)
            /\ call.op = "desaturate" => hsl.s = Clamp(0, 100, view.s - amount)

\* Three hues are pairwise 120 degrees apart modulo 360.
Apart120(h0, h1, h2) ==
    /\ (h1 - h0) % 360 \in {120, 240}
    /\ (h2 - h1) % 360 \in {120, 240}
    /\ (h0 - h2) % 360 \in {120, 240}

\* The hues the HSL view of the i-th returned Color can have.
HueViews(i) == {x.h : x \in RGBToHSL(RgbOf(call.result[i]))}

\* C6 as stated: complementary(base) has length 2, triadic(base) has length 3,
\* and the hues of the HSL views of the three colors triadic returns are
\* pairwise exactly 120 degrees apart modulo 360.  The hues are compared where
\* each view has a single possible hue, which is then the one the code computes.
C6_TriadicHueViews ==
    /\ call.op = "complementary" => Len(call.result) = 2
    /\ call.op = "triadic" =>
          /\ Len(call.result) = 3
          /\ (\A i \in 1..3 : Cardinality(HueViews(i)) = 1) =>
                 \E h0 \in HueViews(1), h1 \in HueViews(2), h2 \in HueViews(3) :
                     Apart120(h0, h1, h2)

\* C6 as amended: complementary(base) has length 2, triadic(base) has length 3,
\* and the hue of base's HSL view and the hues of the two HSL values from which
\* triadic builds its second and third colors are pairwise exactly 120 degrees
\* apart modulo 360.
C6_TriadicHuesBuilt ==
    /\ call.op = "complementary" => Len(call.result) = 2
    /\ call.op = "triadic" =>
          /\ Len(call.result) = 3
          /\ Len(call.hsls) = 2
          /\ Apart120(The(call.view).h, call.hsls[1].h, call.hsls[2].h)
          /\ (call.hsls[1].h - The(call.view).h) % 360 = 120
          /\ (call.hsls[2].h - The(call.view).h) % 360 = 240

\* C6's case: triadic of RGB(10, 20, 30), whose hue 210 gives 330 and, past the
\* wrap, 90.
C6_Witness ==
    /\ call.op = "triadic"
    /\ call.before[colors[call.self]] = [r |-> 10, g |-> 20, b |-> 30]
    /\ The(call.view).h = 210
    /\ call.hsls[1].h = 330
    /\ call.hsls[2].h = 90

\* C10: a call of lighten, darken, saturate, desaturate, invert, grayscale,
\* complement or blend on a Color c leaves c's RGB channels as they were and
\* returns a Color other than c that holds an RGB object other than c's; blend
\* leaves the other operand's RGB as it was too.
C10_ManipulationsPure ==
    call.op \in Manipulations =>
        /\ Len(call.result) = 1
        /\ call.result[1] # call.self
        /\ colors[call.result[1]] # colors[call.self]
        /\ RgbOf(call.self) = call.before[colors[call.self]]
        /\ call.op = "blend" =>
              /\ RgbOf(call.other) = call.before[colors[call.other]]
              /\ call.result[1] # call.other
              /\ colors[call.result[1]] # colors[call.other]

\* C10's case: a second manipulation in a row, a blend of a Color with another
\* one whose result differs from both operands.
C10_Witness ==
    /\ call.op = "blend"
    /\ call.self # call.other
    /\ call.result = <<3>>
    /\ RgbOf(3) # RgbOf(call.self)
    /\ RgbOf(3) # RgbOf(call.other)

(***************************************************************************)
(* SpecPalette: Palette.monochromatic and Palette.gradient, on the values  *)
(* of the colors (the lists they return hold new Colors only).             *)
(***************************************************************************)
\* The largest count of monochromatic and the largest steps of gradient.
MaxCount == 5
MaxSteps == 5

PalColors == {[r |-> 0, g |-> 0, b |-> 0], [r |-> 255, g |-> 255, b |-> 255],
              [r |-> 128, g |-> 128, b |-> 128], [r |-> 255, g |-> 0, b |-> 0],
              [r |-> 10, g |-> 20, b |-> 30], [r |-> 0, g |-> 128, b |-> 255],
              [r |-> 255, g |-> 107, b |-> 107], [r |-> 244, g |-> 240, b |-> 5]}

\* The sequences that take their i-th element from sets[i].
RECURSIVE Products(_)
Products(sets) ==
    IF Len(sets) = 0 THEN {<<>>}
    ELSE {Append(front, x) :
            front \in Products(SubSeq(sets, 1, Len(sets) - 1)), x \in sets[Len(sets)]}

\* a // b of Python for b # 0: the floor of the quotient.
FloorDiv(a, b) == IF b > 0 THEN a \div b ELSE (-a) \div (-b)

\* range(n) of Python, as the sequence 0, 1, ..., n - 1 (empty for n <= 0).
Range(n) == [i \in 1..Max2(n, 0) |-> i - 1]

\* The lightness of the i-th color with start computed as (l - step * count) // 2.
MonoLightnessHalved(l, count, i) ==
    LET step == FloorDiv(80, count)
        start == Max2(10, FloorDiv(l - step * count, 2))
    IN  Min2(90, start + step * i)

\* The lightness monochromatic gives its i-th color (i from 0) for a base of
\* lightness l: step = 80 // count, start = max(10, l - step * count // 2),
\* min(90, start + step * i).
MonoLightness(l, count, i) ==
    LET step == FloorDiv(80, count)
        start == Max2(10, l - FloorDiv(step * count, 2))
    IN  Min2(90, start + step * i)

\* The ratio of the i-th sample written as i / steps.
GradientRatioOverSteps(i, steps) ==
    IF steps > 1 THEN [num |-> i, den |-> steps] ELSE [num |-> 0, den |-> 1]

\* The ratio gradient gives its i-th sample (i from 0):
\* i / (steps - 1) if steps > 1 else 0.
GradientRatio(i, steps) ==
    IF steps > 1 THEN [num |-> i, den |-> steps - 1] ELSE [num |-> 0, den |-> 1]

PalReturned(op, n, view, hsls, cols) ==
    [op |-> op, n |-> n, raised |-> "", view |-> view, hsls |-> hsls, colors |-> cols]
PalRaised(op, n, view, exc) ==
    [op |-> op, n |-> n, raised |-> exc, view |-> view, hsls |-> <<>>, colors |-> <<>>]

PaletteInit ==
    /\ gStart \in PalColors
    /\ gEnd \in PalColors
    /\ gResult = NoVal
    /\ ValueIdle
    /\ ParseIdle
    /\ HeapIdle

\* Palette.monochromatic(Color(gStart), count)
Monochromatic(count) ==
    /\ gResult = NoVal
    /\ \E view \in RGBToHSL(gStart) :
          IF count = 0
          THEN gResult' = Some(PalRaised("monochromatic", count, Some(view),
                                         "ZeroDivisionError"))
          ELSE LET idx == Range(count)
                   hsls == [k \in 1..Len(idx) |->
                               MkHSL(view.h, view.s, MonoLightness(view.l, count, idx[k]))]
               IN  \E cols \in Products([k \in 1..Len(idx) |-> HSLToRGB(hsls[k])]) :
                      gResult' = Some(PalReturned("monochromatic", count, Some(view),
                                                  hsls, cols))
    /\ UNCHANGED <<gStart, gEnd>>
    /\ UNCHANGED <<valueVars, parseVars, heapVars>>

\* Palette.gradient(Color(gStart), Color(gEnd), steps)
Gradient(steps) ==
    /\ gResult = NoVal
    /\ LET idx == Range(steps)
       IN  \E cols \in Products([k \in 1..Len(idx) |->
                                   BlendRGB(gStart, gEnd,
                                            GradientRatio(idx[k], steps).num,
                                            GradientRatio(idx[k], steps).den)]) :
              gResult' = Some(PalReturned("gradient", steps, NoVal, <<>>, cols))
    /\ UNCHANGED <<gStart, gEnd>>
    /\ UNCHANGED <<valueVars, parseVars, heapVars>>

PaletteNext ==
    \/ \E count \in (-1)..MaxCount : Monochromatic(count)
    \/ \E steps \in (-1)..MaxSteps : Gradient(steps)

SpecPalette == PaletteInit /\ [][PaletteNext]_vars

(***************************************************************************)
(* Claims on SpecPalette.                                                  *)
(***************************************************************************)
\* C7: gradient(start, end, steps) with steps > 1 returns exactly steps colors,
\* the first with the RGB of start and the last with the RGB of end; with
\* steps = 1 it returns the one color start; with steps = 0 it returns an empty
\* list and raises nothing.
C7_GradientEnds ==
    (gResult # NoVal /\ The(gResult).op = "gradient") =>
        LET res == The(gResult)
        IN  /\ res.n > 1 =>
                  /\ res.raised = ""
                  /\ Len(res.colors) = res.n
                  /\ res.colors[1] = gStart
                  /\ res.colors[res.n] = gEnd
            /\ res.n = 1 => (res.raised = "" /\ res.colors = <<gStart>>)
            /\ res.n = 0 => (res.raised = "" /\ res.colors = <<>>)

\* C7's case: a gradient of the most steps between two different colors, whose
\* second sample is neither of them.
C7_Witness ==
    /\ gResult # NoVal
    /\ The(gResult).op = "gradient"
    /\ The(gResult).n = MaxSteps
    /\ gStart # gEnd
    /\ The(gResult).colors[2] \notin {gStart, gEnd}
    /\ The(gResult).colors[MaxSteps] = gEnd

\* C8: monochromatic(base, count) with count >= 1 emits exactly count colors
\* built from HSL values with base's hue and saturation and the lightness
\* min(90, start + step * i) for i = 0..count-1, where step = 80 // count and
\* start = max(10, base.l - (step * count) // 2); every lightness is in [10,90]
\* and the sequence does not decrease.  With count = 0 the call raises
\* ZeroDivisionError and returns no list.
C8_Monochromatic ==
    (gResult # NoVal /\ The(gResult).op = "monochromatic") =>
        LET res == The(gResult)
            view == The(res.view)
            step == 80 \div res.n
            start == Max2(10, view.l - ((step * res.n) \div 2))
        IN  /\ res.n >= 1 =>
                  /\ res.raised = ""
                  /\ Len(res.colors) = res.n
                  /\ Len(res.hsls) = res.n
                  /\ \A k \in 1..res.n :
                        /\ res.hsls[k].h = view.h
                        /\ res.hsls[k].s = view.s
                        /\ res.hsls[k].l = Min2(90, start + step * (k - 1))
                        /\ res.hsls[k].l \in 10..90
                        /\ res.colors[k] \in HSLToRGB(res.hsls[k])
                  /\ \A k \in 1..(res.n - 1) : res.hsls[k].l <= res.hsls[k + 1].l
            /\ res.n = 0 =>
                  (res.raised = "ZeroDivisionError" /\ res.colors = <<>>)

\* C8's case: the most colors from a light base, where the lightness starts
\* above 10, rises by the step and is capped at 90.
C8_Witness ==
    /\ gResult # NoVal
    /\ The(gResult).op = "monochromatic"
    /\ The(gResult).n = MaxCount
    /\ The(gResult).hsls[1].l > 10
    /\ The(gResult).hsls[2].l > The(gResult).hsls[1].l
    /\ The(gResult).hsls[MaxCount].l = 90
    /\ The(gResult).hsls[MaxCount - 1].l = 90

====
